---- MODULE Spec2Model ----
(***************************************************************************)
(* Model of the redirector proxy (src/proxy.go): the blacklist loader      *)
(* (InitHosts), the decision function (IsDenied) and the org-mode watcher  *)
(* goroutine (InitOrgReader / IsClocking / Visit).                          *)
(*                                                                         *)
(* Strings are sequences of one-character strings, so that strings.Split,  *)
(* strconv.Atoi and strings.Contains are computed as the library computes  *)
(* them.  Lines of org files are sequences of lexical tokens ("CLOCK:",    *)
(* "--", "=>" and "t" for any other text), which is all the two regular    *)
(* expressions of Visit can tell apart.                                    *)
(***************************************************************************)
EXTENDS Integers, Sequences, FiniteSets, TLC

VARIABLES
    hours,      \* main: local string `hours` bound to the -hours flag
    Blacklist,  \* the file named by r.Blacklist, as the reader will see it
    OrgDir,     \* r.OrgDir: [set |-> FALSE] for "", else the tree at that path
    Blockmode,  \* r.Blockmode
    Hours,      \* r.Hours
    Hosts,      \* r.Hosts
    Clocking,   \* r.Clocking
    mpc,        \* position of the main goroutine
    wpc,        \* position of the watcher goroutine
    widx,       \* watcher: index of the next callback call of filepath.Walk
    wline,      \* watcher: index of the next line of the file being read
    logged,     \* the value printed by the last log.Printf("Clocking %t")
    cycled,     \* whether that log line has been printed at least once
    call,       \* the last IsDenied call: its inputs and its outcome
    edited      \* whether the tree was edited since the last scan started

vars == <<hours, Blacklist, OrgDir, Blockmode, Hours, Hosts, Clocking,
          mpc, wpc, widx, wline, logged, cycled, call, edited>>

-----------------------------------------------------------------------------
(* Bounds and inputs *)

\* Longest host name a request is made for.
MaxHostLen == 2

\* h, _, _ := time.Now().Clock(): the hour is in 0..23.
MaxHour == 23

Alphabet == {"a", "b"}

RECURSIVE StrUpTo(_)
StrUpTo(n) ==
    IF n = 0 THEN {<<>>}
    ELSE LET S == StrUpTo(n - 1)
         IN  S \cup {Append(s, c) : s \in {t \in S : Len(t) = n - 1}, c \in Alphabet}

HostNames == StrUpTo(MaxHostLen)

HourRange == 0..MaxHour

-----------------------------------------------------------------------------
(* Library functions, computed as the Go library computes them *)

\* strings.Split(s, sep) for a one-character separator: n separators give
\* n+1 pieces, so Split("", sep) is one empty piece.
RECURSIVE SplitFrom(_, _, _, _, _)
SplitFrom(s, sep, i, cur, acc) ==
    IF i > Len(s) THEN Append(acc, cur)
    ELSE IF s[i] = sep THEN SplitFrom(s, sep, i + 1, <<>>, Append(acc, cur))
    ELSE SplitFrom(s, sep, i + 1, Append(cur, s[i]), acc)

Split(s, sep) == SplitFrom(s, sep, 1, <<>>, <<>>)

Digits == {"0", "1", "2", "3", "4", "5", "6", "7", "8", "9"}

DigitVal(c) ==
    CASE c = "0" -> 0 [] c = "1" -> 1 [] c = "2" -> 2 [] c = "3" -> 3
      [] c = "4" -> 4 [] c = "5" -> 5 [] c = "6" -> 6 [] c = "7" -> 7
      [] c = "8" -> 8 [] c = "9" -> 9

RECURSIVE DecVal(_, _, _)
DecVal(s, i, acc) ==
    IF i > Len(s) THEN acc ELSE DecVal(s, i + 1, acc * 10 + DigitVal(s[i]))

\* strconv.Atoi, value part only (the callers drop the error): an optional
\* sign followed by one or more decimal digits; anything else is a syntax
\* error and yields 0.  The strings of this model are shorter than 19
\* characters, so the range error of Atoi cannot occur.
Atoi(s) ==
    LET signed == Len(s) > 0 /\ s[1] \in {"+", "-"}
        body   == IF signed THEN SubSeq(s, 2, Len(s)) ELSE s
    IN  IF Len(body) = 0 \/ \E i \in 1..Len(body) : body[i] \notin Digits
        THEN 0
        ELSE IF signed /\ s[1] = "-" THEN 0 - DecVal(body, 1, 0)
        ELSE DecVal(body, 1, 0)

\* strings.Contains(s, substr)
Contains(s, substr) ==
    \E i \in 0..(Len(s) - Len(substr)) : SubSeq(s, i + 1, i + Len(substr)) = substr

-----------------------------------------------------------------------------
(* Text files as bufio.Reader.ReadLine delivers them: the complete lines
   that precede the event that ends the read loop, and that event: "eof"
   (io.EOF), "err" (any other read error) or "prefix" (isPrefix: a line
   longer than the 16K buffer). *)

File(open, lines, end) == [open |-> open, lines |-> lines, end |-> end]

NoFile == File("err", <<>>, "eof")

\* The lines successive ReadLine calls return with err == nil && !isPrefix.
ReadLines(f) == f.lines

-----------------------------------------------------------------------------
(* Inputs: command lines and file systems the program can be started on *)

HourSpecs ==
    { <<>>,                                             \* -hours ""
      <<"8", "-", "1", "1">>,                           \* 8-11
      <<"8", "-", "1", "1", ",", "1", "3", "-", "1", "7">>, \* 8-11,13-17
      <<"2", "2", "-", "6">>,                           \* 22-6
      <<"8", "-", "1", "1", "-", "1", "3">>,            \* 8-11-13
      <<"8", "-">>,                                     \* 8-
      <<"-", "1", "1">>,                                \* -11
      <<"x", "-", "y">>,                                \* x-y
      <<"8">>,                                          \* 8
      <<"8", "-", "1", "1", ",", "1", "2">>,            \* 8-11,12
      <<"8", "-", "1", "1", ",", "x", "-", "y">> }      \* 8-11,x-y

BlacklistFiles ==
    { NoFile,
      File("ok", <<>>, "eof"),
      File("ok", << <<"a", "b">> >>, "eof"),
      File("ok", << <<"b", "b">>, <<"a">> >>, "eof"),
      File("ok", << <<>> >>, "eof"),
      File("ok", << <<"b">> >>, "prefix"),
      File("ok", << <<"a">>, <<"b", "(">> >>, "eof") }

\* Lines of org files.
LOpen   == <<"t", "CLOCK:", "t">>
LClosed == <<"CLOCK:", "t", "--", "t", "=>", "t">>
LHalf   == <<"CLOCK:", "t", "--", "t">>
LBefore == <<"--", "=>", "CLOCK:", "t">>
LText   == <<"t", "--", "=>">>

\* Directory entries, in the lexical order in which filepath.Walk meets them.
\* kind "nostat" is an entry whose Lstat fails; org is the result of
\* regexp.MatchString("\\.org", path).
OrgFile(f)     == [kind |-> "file", org |-> TRUE, file |-> f, readable |-> TRUE, entries |-> <<>>]
OtherFile(f)   == [kind |-> "file", org |-> FALSE, file |-> f, readable |-> TRUE, entries |-> <<>>]
NoStat         == [kind |-> "nostat", org |-> FALSE, file |-> NoFile, readable |-> FALSE, entries |-> <<>>]
Dir(r, es)     == [kind |-> "dir", org |-> FALSE, file |-> NoFile, readable |-> r, entries |-> es]

Text(lines) == File("ok", lines, "eof")

TreeOpen     == Dir(TRUE, << OrgFile(Text(<<LText, LOpen>>)) >>)
TreeClosed   == Dir(TRUE, << OrgFile(Text(<<LClosed, LText>>)) >>)
TreeMixed    == Dir(TRUE, << OrgFile(Text(<<LClosed>>)),
                             Dir(TRUE, << OrgFile(Text(<<LClosed, LHalf>>)) >>),
                             OrgFile(Text(<<LClosed>>)) >>)
TreeOther    == Dir(TRUE, << OtherFile(Text(<<LOpen>>)), OrgFile(Text(<<LText>>)) >>)
TreeBefore   == Dir(TRUE, << OrgFile(Text(<<LBefore>>)) >>)
TreeOpenErr  == Dir(TRUE, << OrgFile(NoFile), OrgFile(Text(<<LOpen>>)) >>)
TreeReadErr  == Dir(TRUE, << OrgFile(File("ok", <<LClosed>>, "err")), OrgFile(Text(<<LOpen>>)) >>)
TreePrefix   == Dir(TRUE, << OrgFile(File("ok", <<LClosed>>, "prefix")), OrgFile(Text(<<LOpen>>)) >>)
TreeUnreadable == Dir(TRUE, << Dir(FALSE, << OrgFile(Text(<<LOpen>>)) >>), OrgFile(Text(<<LClosed>>)) >>)
TreeNoStat   == Dir(TRUE, << OrgFile(Text(<<LOpen>>)), NoStat >>)
TreeMissing  == NoStat
TreeRootFile == OrgFile(Text(<<LHalf>>))

\* What an editor that clocks in or out can turn a tree into while the
\* program runs: the same files with other lines.
Edits(t) ==
    CASE t = TreeOpen   -> {TreeClosed}
      [] t = TreeClosed -> {TreeOpen}
      [] OTHER          -> {}

Trees == { TreeOpen, TreeClosed, TreeMixed, TreeOther, TreeBefore, TreeOpenErr,
           TreeReadErr, TreePrefix, TreeUnreadable, TreeNoStat, TreeMissing,
           TreeRootFile }

\* r.OrgDir: the empty path, or a path and the tree found there.
NoOrgDir   == [set |-> FALSE, root |-> NoStat]
OrgDirAt(t) == [set |-> TRUE, root |-> t]

-----------------------------------------------------------------------------
(* InitHosts *)

\* AppendLines with a loop that stops one line early.
RECURSIVE AppendLinesDropLast(_, _, _)
AppendLinesDropLast(hosts, lines, i) ==
    IF i >= Len(lines) THEN hosts
    ELSE AppendLinesDropLast(Append(hosts, lines[i]), lines, i + 1)

\* The read loop of InitHosts: every line ReadLine returns is appended to
\* r.Hosts as it is, the empty line included.
RECURSIVE AppendLines(_, _, _)
AppendLines(hosts, lines, i) ==
    IF i > Len(lines) THEN hosts
    ELSE AppendLines(Append(hosts, lines[i]), lines, i + 1)

\* r.Hosts after InitHosts: unchanged when os.Open fails; otherwise the
\* lines read before EOF, a read error or an oversized line.
InitHosts(hosts, f) ==
    IF f.open = "err" THEN hosts ELSE AppendLines(hosts, ReadLines(f), 1)

\* regexp.MustCompile("^.*" + pattern + "$") returns.  Of the characters of
\* this model only "(" is a metacharacter, and nothing closes it.
Compiles(pattern) == \A i \in 1..Len(pattern) : pattern[i] # "("

-----------------------------------------------------------------------------
(* IsDenied *)

\* for i := 0; i < len(r.Hosts); i++ { found = found || strings.Contains(...) }
RECURSIVE FoundLoop(_, _, _, _)
FoundLoop(host, hosts, i, found) ==
    IF i > Len(hosts) THEN found
    ELSE FoundLoop(host, hosts, i + 1, found \/ Contains(host, hosts[i]))

\* HourToken with a window whose start is after its end taken to wrap round
\* midnight.
HourTokenWrap(tok, h, deny) ==
    IF tok = <<>> THEN [panic |-> FALSE, deny |-> deny]
    ELSE LET parts == Split(tok, "-")
         IN  IF Len(parts) < 2 THEN [panic |-> TRUE, deny |-> deny]
             ELSE LET start == Atoi(parts[1])
                      stop  == Atoi(parts[2])
                      in    == IF start <= stop THEN h >= start /\ h <= stop
                               ELSE h >= start \/ h <= stop
                  IN  [panic |-> FALSE, deny |-> IF in THEN TRUE ELSE deny]

\* The body of the loop over r.Hours for one token.  hours[1] of the code is
\* an index out of range when the token holds no "-": a run-time panic.
HourToken(tok, h, deny) ==
    IF tok = <<>> THEN [panic |-> FALSE, deny |-> deny]
    ELSE LET parts == Split(tok, "-")
         IN  IF Len(parts) < 2 THEN [panic |-> TRUE, deny |-> deny]
             ELSE LET start == Atoi(parts[1])
                      stop  == Atoi(parts[2])
                  IN  [panic |-> FALSE,
                       deny  |-> IF h >= start /\ h <= stop THEN TRUE ELSE deny]

\* for i := 0; i < len(r.Hours); i++ { ... }
RECURSIVE HoursLoop(_, _, _, _)
HoursLoop(hs, h, i, deny) ==
    IF i > Len(hs) THEN [panic |-> FALSE, deny |-> deny]
    ELSE LET r == HourToken(hs[i], h, deny)
         IN  IF r.panic THEN r ELSE HoursLoop(hs, h, i + 1, r.deny)

\* Verdict without the statement deny = deny || r.Clocking.
VerdictNoClocking(found, deny, clocking) == found /\ deny

\* deny = deny || r.Clocking; return found && deny
Verdict(found, deny, clocking) == found /\ (deny \/ clocking)

\* IsDenied(host) at local hour h, reading r.Clocking as clocking.
IsDenied(host, h, hosts, hs, blockmode, clocking) ==
    LET found == FoundLoop(host, hosts, 1, FALSE)
        loop  == IF Len(hs) > 0 THEN HoursLoop(hs, h, 1, blockmode)
                 ELSE [panic |-> FALSE, deny |-> blockmode]
    IN  IF loop.panic THEN [panic |-> TRUE, ret |-> FALSE]
        ELSE [panic |-> FALSE, ret |-> Verdict(found, loop.deny, clocking)]

-----------------------------------------------------------------------------
(* filepath.Walk and Visit *)

\* The callback calls filepath.Walk makes on a tree, in order, as long as the
\* callback returns nil: an entry whose Lstat fails is passed with a nil
\* FileInfo; a directory is passed before its entries, and its entries are
\* not walked when it cannot be read.
RECURSIVE WalkCalls(_), WalkEntries(_, _)
WalkCalls(e) ==
    IF e.kind = "dir" /\ e.readable THEN <<e>> \o WalkEntries(e.entries, 1)
    ELSE <<e>>

WalkEntries(es, i) ==
    IF i > Len(es) THEN <<>> ELSE WalkCalls(es[i]) \o WalkEntries(es, i + 1)

\* regexp.MatchString(".*CLOCK:.*", s)
isClock(line) == \E i \in 1..Len(line) : line[i] = "CLOCK:"

\* regexp.MatchString(".*CLOCK:.*--.*=>.*", s)
isEnded(line) ==
    \E i, j, k \in 1..Len(line) :
        i < j /\ j < k /\ line[i] = "CLOCK:" /\ line[j] = "--" /\ line[k] = "=>"

\* LineClocking without the test of isEnded.
LineClockingAnyClock(clocking, line) == IF isClock(line) THEN TRUE ELSE clocking

\* LineClocking as the plain assignment r.Clocking = isClock && !isEnded.
LineClockingAssign(clocking, line) == isClock(line) /\ ~isEnded(line)

\* if isClock && !isEnded { r.Clocking = true }
LineClocking(clocking, line) ==
    IF isClock(line) /\ ~isEnded(line) THEN TRUE ELSE clocking

-----------------------------------------------------------------------------
(* The program *)

NoCall == [made |-> FALSE, host |-> <<>>, hour |-> 0, clocking |-> FALSE,
           panic |-> FALSE, ret |-> FALSE]

OrgDirs == {NoOrgDir} \cup {OrgDirAt(t) : t \in Trees}

\* The state in which main starts: r := Redirector{} and the command line.
InitOn(hourSpecs, blacklists, orgDirs) ==
    /\ hours \in hourSpecs
    /\ Blacklist \in blacklists
    /\ OrgDir \in orgDirs
    /\ Blockmode \in BOOLEAN
    /\ Hours = <<>>
    /\ Hosts = <<>>
    /\ Clocking = FALSE
    /\ mpc = "main"
    /\ wpc = "off"
    /\ widx = 0
    /\ wline = 0
    /\ logged = FALSE
    /\ cycled = FALSE
    /\ call = NoCall
    /\ edited = FALSE

\* Every command line, on a file system whose -orgdir is a single org file.
Init == InitOn(HourSpecs, BlacklistFiles, {NoOrgDir, OrgDirAt(TreeRootFile)})

\* Every -orgdir tree, under two command lines.
InitWatch ==
    InitOn({<<>>, <<"8", "-", "1", "1">>},
           {File("ok", << <<"a", "b">> >>, "eof")}, OrgDirs)

\* A panic of the main goroutine or of the watcher goroutine is recovered
\* nowhere: it ends the process.
Running == mpc # "panic" /\ wpc # "panic"

\* Main with the watcher started whatever -orgdir is.
MainAlwaysWatch ==
    /\ Running
    /\ mpc = "main"
    /\ Hours' = Split(hours, ",")
    /\ wpc' = "cycle"
    /\ mpc' = "proxy"
    /\ UNCHANGED <<edited, hours, Blacklist, OrgDir, Blockmode, Hosts, Clocking,
                   widx, wline, logged, cycled, call>>

\* main up to the call of InitProxyServer: the split of the -hours flag and,
\* in Init, the start of the watcher goroutine when -orgdir is not empty.
Main ==
    /\ Running
    /\ mpc = "main"
    /\ Hours' = Split(hours, ",")
    /\ wpc' = IF OrgDir.set THEN "cycle" ELSE wpc
    /\ mpc' = "proxy"
    /\ UNCHANGED <<edited, hours, Blacklist, OrgDir, Blockmode, Hosts, Clocking,
                   widx, wline, logged, cycled, call>>

\* InitProxyServer up to ListenAndServe: the blacklist is loaded, every
\* pattern is compiled as a regular expression for the MITM rule (MustCompile
\* panics on a pattern that is none) and the two handlers that call IsDenied
\* are registered.
InitProxyServer ==
    /\ Running
    /\ mpc = "proxy"
    /\ Hosts' = InitHosts(Hosts, Blacklist)
    /\ mpc' = IF \A i \in 1..Len(Hosts') : Compiles(Hosts'[i]) THEN "serve" ELSE "panic"
    /\ UNCHANGED <<edited, hours, Blacklist, OrgDir, Blockmode, Hours, Clocking,
                   wpc, widx, wline, logged, cycled, call>>

\* Evaluate with r.Clocking = deny || r.Clocking in the place of
\* deny = deny || r.Clocking.
EvaluateStoring(host, h) ==
    /\ Running
    /\ mpc = "serve"
    /\ ~call.made
    /\ LET r == IsDenied(host, h, Hosts, Hours, Blockmode, Clocking)
           l == HoursLoop(Hours, h, 1, Blockmode)
       IN  /\ call' = [made |-> TRUE, host |-> host, hour |-> h,
                       clocking |-> Clocking, panic |-> r.panic, ret |-> r.ret]
           /\ Clocking' = IF l.panic THEN Clocking ELSE (l.deny \/ Clocking)
    /\ UNCHANGED <<edited, hours, Blacklist, OrgDir, Blockmode, Hours, Hosts,
                   mpc, wpc, widx, wline, logged, cycled>>

\* A handler of the proxy calls IsDenied(host) at local hour h.  The read of
\* r.Clocking is not synchronised with the writes of the watcher: it returns
\* the value before or after a concurrent write, which are the two orders in
\* which this action and the watcher's actions interleave.  IsDenied writes
\* nothing, so concurrent calls do not affect each other and the model
\* follows one call at a time, from the call to the handler's return.
Evaluate(host, h) ==
    /\ Running
    /\ mpc = "serve"
    /\ ~call.made
    /\ LET r == IsDenied(host, h, Hosts, Hours, Blockmode, Clocking)
       IN  call' = [made |-> TRUE, host |-> host, hour |-> h,
                    clocking |-> Clocking, panic |-> r.panic, ret |-> r.ret]
    /\ UNCHANGED <<edited, hours, Blacklist, OrgDir, Blockmode, Hours, Hosts, Clocking,
                   mpc, wpc, widx, wline, logged, cycled>>

Request == \E host \in HostNames, h \in HourRange : Evaluate(host, h)

\* The handler acts on the verdict (Redirect rewrites the request, which is
\* no state of the Redirector) and returns; a panic of IsDenied ends the
\* request instead, not the process (net/http recovers it).
Respond ==
    /\ Running
    /\ call.made
    /\ call' = NoCall
    /\ UNCHANGED <<edited, hours, Blacklist, OrgDir, Blockmode, Hours, Hosts, Clocking,
                   mpc, wpc, widx, wline, logged, cycled>>

\* IsClocking without its first statement r.Clocking = false.
IsClockingNoReset ==
    /\ Running
    /\ wpc = "cycle"
    /\ wpc' = "walk"
    /\ widx' = 1
    /\ edited' = FALSE
    /\ UNCHANGED <<hours, Blacklist, OrgDir, Blockmode, Hours, Hosts, Clocking,
                   mpc, wline, logged, cycled, call>>

\* IsClocking, first statement: r.Clocking = false; then filepath.Walk starts.
IsClocking ==
    /\ Running
    /\ wpc = "cycle"
    /\ Clocking' = FALSE
    /\ wpc' = "walk"
    /\ widx' = 1
    /\ edited' = FALSE
    /\ UNCHANGED <<hours, Blacklist, OrgDir, Blockmode, Hours, Hosts,
                   mpc, wline, logged, cycled, call>>

Calls == WalkCalls(OrgDir.root)

\* The callback returned nil: filepath.Walk makes its next call, or returns.
Advance ==
    IF widx >= Len(Calls) THEN wpc' = "log" /\ widx' = widx
    ELSE wpc' = "walk" /\ widx' = widx + 1

\* Visit up to its first ReadLine: info.IsDir() on a nil FileInfo panics; a
\* directory or a path that does not match \.org returns nil; a failed
\* os.Open returns the error, which makes filepath.Walk return.
Visit ==
    /\ Running
    /\ wpc = "walk"
    /\ LET e == Calls[widx]
       IN  IF e.kind = "nostat" THEN wpc' = "panic" /\ UNCHANGED <<widx, wline>>
           ELSE IF e.kind = "dir" \/ ~e.org THEN Advance /\ UNCHANGED wline
           ELSE IF e.file.open = "err" THEN wpc' = "log" /\ UNCHANGED <<widx, wline>>
           ELSE wpc' = "read" /\ wline' = 1 /\ UNCHANGED widx
    /\ UNCHANGED <<edited, hours, Blacklist, OrgDir, Blockmode, Hours, Hosts, Clocking,
                   mpc, logged, cycled, call>>

\* One turn of the read loop of Visit, or its end: io.EOF and an oversized
\* line return nil, any other read error returns the error.
ReadLine ==
    /\ Running
    /\ wpc = "read"
    /\ LET f == Calls[widx].file
       IN  IF wline <= Len(ReadLines(f))
           THEN /\ Clocking' = LineClocking(Clocking, ReadLines(f)[wline])
                /\ wline' = wline + 1
                /\ UNCHANGED <<wpc, widx>>
           ELSE /\ IF f.end = "err" THEN wpc' = "log" /\ widx' = widx ELSE Advance
                /\ UNCHANGED <<Clocking, wline>>
    /\ UNCHANGED <<edited, hours, Blacklist, OrgDir, Blockmode, Hours, Hosts,
                   mpc, logged, cycled, call>>

\* LogClocking in a loop without time.Sleep.
LogClockingNoSleep ==
    /\ Running
    /\ wpc = "log"
    /\ logged' = Clocking
    /\ cycled' = TRUE
    /\ wpc' = "cycle"
    /\ UNCHANGED <<edited, hours, Blacklist, OrgDir, Blockmode, Hours, Hosts, Clocking,
                   mpc, widx, wline, call>>

\* filepath.Walk has returned: log.Printf("Clocking %t", r.Clocking).
LogClocking ==
    /\ Running
    /\ wpc = "log"
    /\ logged' = Clocking
    /\ cycled' = TRUE
    /\ wpc' = "sleep"
    /\ UNCHANGED <<edited, hours, Blacklist, OrgDir, Blockmode, Hours, Hosts, Clocking,
                   mpc, widx, wline, call>>

\* time.Sleep(10 * time.Second) returns and the loop goes round.
Sleep ==
    /\ Running
    /\ wpc = "sleep"
    /\ wpc' = "cycle"
    /\ UNCHANGED <<edited, hours, Blacklist, OrgDir, Blockmode, Hours, Hosts, Clocking,
                   mpc, widx, wline, logged, cycled, call>>

\* The user clocks in or out: the lines of the org files change under the
\* running program.  A ReadLine that follows reads the new lines.
Edit ==
    /\ Running
    /\ OrgDir.set
    /\ \E t \in Edits(OrgDir.root) : OrgDir' = OrgDirAt(t)
    /\ edited' = TRUE
    /\ UNCHANGED <<hours, Blacklist, Blockmode, Hours, Hosts, Clocking,
                   mpc, wpc, widx, wline, logged, cycled, call>>

Next ==
    \/ Main
    \/ InitProxyServer
    \/ Request
    \/ Respond
    \/ IsClocking
    \/ Visit
    \/ ReadLine
    \/ LogClocking
    \/ Sleep

Spec == Init /\ [][Next]_vars

SpecWatch == InitWatch /\ [][Next]_vars

\* The program on a tree that is edited while it runs.
InitEdit ==
    InitOn({<<>>}, {File("ok", << <<"a", "b">> >>, "eof")},
           {OrgDirAt(TreeOpen), OrgDirAt(TreeClosed)})

NextEdit == Next \/ Edit

SpecEdit == InitEdit /\ [][NextEdit]_vars

-----------------------------------------------------------------------------
(* Vocabulary of the properties *)

\* At least one blacklist pattern is a substring of host.
Matched(host) == \E i \in 1..Len(Hosts) : Contains(host, Hosts[i])

\* The hour windows of the -hours flag: one start-end pair for each
\* comma-separated token that holds a "-".
Windows ==
    LET toks == Split(hours, ",")
    IN  { <<Atoi(Split(toks[i], "-")[1]), Atoi(Split(toks[i], "-")[2])>> :
            i \in {j \in 1..Len(toks) : Len(Split(toks[j], "-")) >= 2} }

\* The hour lies in at least one configured window, both ends inclusive.
InSomeWindow(h) == \E w \in Windows : w[1] <= h /\ h <= w[2]

\* The lines are non-empty and pairwise distinct.
DistinctNonEmpty(lines) ==
    /\ \A i \in 1..Len(lines) : lines[i] # <<>>
    /\ \A i, j \in 1..Len(lines) : i # j => lines[i] # lines[j]

\* The number of lines written to the file: the lines the reader delivers
\* and, when the read ends on an oversized line, that line.
WrittenCount(f) == Len(f.lines) + (IF f.end = "prefix" THEN 1 ELSE 0)

\* InitHosts has run.
Loaded == mpc \in {"serve", "panic"}

\* The BlockList has n patterns and matches every host that contains a line.
RoundTrip(f, n) ==
    /\ Len(Hosts) = n
    /\ \A i \in 1..Len(f.lines) : \A host \in HostNames :
           Contains(host, f.lines[i]) => FoundLoop(host, Hosts, 1, FALSE)

\* The token is start-end with two decimal numbers.
WellFormed(tok) ==
    LET parts == Split(tok, "-")
    IN  /\ Len(parts) = 2
        /\ \A n \in 1..2 : /\ Len(parts[n]) > 0
                            /\ \A i \in 1..Len(parts[n]) : parts[n][i] \in Digits

\* The token has two halves and one of them is empty or not a number.
Malformed(tok) == Len(Split(tok, "-")) = 2 /\ ~WellFormed(tok)

Tokens == LET toks == Split(hours, ",") IN {toks[i] : i \in 1..Len(toks)} \ {<<>>}

\* The hour lies in the window of at least one well-formed token.
InSomeWellFormedWindow(h) ==
    \E tok \in Tokens :
        /\ WellFormed(tok)
        /\ Atoi(Split(tok, "-")[1]) <= h
        /\ h <= Atoi(Split(tok, "-")[2])

\* The line contains CLOCK: and has not the shape CLOCK: ... -- ... => ...
OpenMarker(line) ==
    /\ \E i \in 1..Len(line) : line[i] = "CLOCK:"
    /\ ~\E i \in 1..Len(line) :
            /\ line[i] = "CLOCK:"
            /\ \E j \in (i + 1)..Len(line) :
                   line[j] = "--" /\ \E k \in (j + 1)..Len(line) : line[k] = "=>"

\* Some line of some file of the tree whose path matches \.org, among the
\* files that satisfy ok, is an open clock marker.
RECURSIVE HasOpenMarker(_, _)
HasOpenMarker(e, onlyOpenable) ==
    IF e.kind = "file"
    THEN /\ e.org
         /\ onlyOpenable => e.file.open = "ok"
         /\ \E i \in 1..Len(e.file.lines) : OpenMarker(e.file.lines[i])
    ELSE \E i \in 1..Len(e.entries) : HasOpenMarker(e.entries[i], onlyOpenable)

\* The tree can be scanned without any I/O error or oversized line; with
\* openMayFail, apart from files that cannot be opened.
RECURSIVE Scannable(_, _)
Scannable(e, openMayFail) ==
    CASE e.kind = "nostat" -> FALSE
      [] e.kind = "file"   -> ~e.org \/ /\ openMayFail \/ e.file.open = "ok"
                                        /\ e.file.open = "ok" => e.file.end = "eof"
      [] e.kind = "dir"    -> /\ e.readable
                              /\ \A i \in 1..Len(e.entries) :
                                     Scannable(e.entries[i], openMayFail)

\* The lines the current scan cycle has read so far or, when no scan is in
\* progress, the lines the last cycle read: those of the files passed to
\* Visit and opened, up to the line the read loop has reached; a line longer
\* than the read buffer is not among them.
LinesOf(e) ==
    IF e.kind = "file" /\ e.org /\ e.file.open = "ok"
    THEN {ReadLines(e.file)[i] : i \in 1..Len(ReadLines(e.file))}
    ELSE {}

LinesRead ==
    LET visited == IF wpc \in {"walk", "read"} THEN widx - 1 ELSE widx
        partial == IF wpc = "read"
                   THEN {ReadLines(Calls[widx].file)[i] : i \in 1..(wline - 1)}
                   ELSE {}
    IN  UNION {LinesOf(Calls[i]) : i \in 1..visited} \cup partial

\* A scan cycle has completed and the next one has not started.
CycleDone == wpc \in {"log", "sleep"} \/ (wpc = "cycle" /\ cycled)

-----------------------------------------------------------------------------
(* Properties *)

\* C1: IsDenied(host) returns exactly matched AND (blockmode OR the current
\* hour lies in at least one configured window OR clocking), for every host,
\* block-mode flag, hour-window list, hour and clocking value.
C1_DecisionFormula ==
    call.made =>
        /\ ~call.panic
        /\ call.ret = (Matched(call.host) /\
                          (Blockmode \/ InSomeWindow(call.hour) \/ call.clocking))

\* C2: for a host that matches no blacklist pattern, Evaluate is false,
\* whatever the hour, the block-mode flag, the windows and the clocking flag.
C2_UnmatchedNeverDenied ==
    (call.made /\ ~Matched(call.host)) => (~call.panic /\ call.ret = FALSE)

\* C3: with block-mode on, Evaluate is true for every matched host, at every
\* hour, for every hour-window list and either value of the clocking flag.
C3_BlockmodeAlwaysDenies ==
    (call.made /\ Blockmode /\ Matched(call.host)) => (~call.panic /\ call.ret = TRUE)

\* C4: with block-mode off and clocking false, Evaluate on a matched host is
\* true iff start <= hour <= end for at least one configured window.
C4_WindowsInclusive ==
    (call.made /\ ~Blockmode /\ ~call.clocking /\ Matched(call.host)) =>
        (~call.panic /\ (call.ret <=> InSomeWindow(call.hour)))

\* C5: with an empty -hours spec and block-mode off, Evaluate on a matched
\* host returns exactly the value the clocking flag has at the call.
C5_EmptySpecFollowsClocking ==
    (call.made /\ hours = <<>> /\ ~Blockmode /\ Matched(call.host)) =>
        (~call.panic /\ call.ret = call.clocking)

C5_Witness ==
    /\ call.made /\ hours = <<>> /\ ~Blockmode /\ Matched(call.host)
    /\ call.clocking /\ call.ret /\ call.hour = 23

\* C6: when a scan cycle completes without I/O error or oversized line, the
\* clocking flag is true iff some line of some \.org file of the tree is an
\* open clock marker.
C6_ScanResult ==
    (CycleDone /\ Scannable(OrgDir.root, FALSE)) =>
        (Clocking <=> HasOpenMarker(OrgDir.root, FALSE))

C6_Witness ==
    /\ wpc = "sleep" /\ OrgDir.root = TreeMixed /\ Clocking
    /\ Scannable(OrgDir.root, FALSE) /\ HasOpenMarker(OrgDir.root, FALSE)

\* C7: an Evaluate call reads true only when a completed cycle had the result
\* true, and once a cycle has completed with result true on a tree that keeps
\* its open marker, no later Evaluate call reads false.
C7_ReadsPublishedOnly ==
    [][(~call.made /\ call'.made) =>
          /\ call'.clocking => (cycled /\ logged)
          /\ (cycled /\ logged /\ Scannable(OrgDir.root, FALSE)
                /\ HasOpenMarker(OrgDir.root, FALSE)) => call'.clocking]_vars

\* C8: a file that cannot be opened is skipped alone: an open clock marker in
\* any file that can be opened makes the flag true at the end of the cycle.
C8_OpenFailureSkipsOneFile ==
    (CycleDone /\ Scannable(OrgDir.root, TRUE) /\ HasOpenMarker(OrgDir.root, TRUE))
        => Clocking

\* C9: no filesystem condition met during a cycle terminates the watcher
\* loop or crashes the process.
C9_WatcherNeverDies == wpc # "panic"

\* C10: every Evaluate call returns a boolean; none fails or aborts.
C10_EvaluateTotal == call.made => ~call.panic

\* C11: a malformed hour-window token is treated as absent: with block-mode
\* off and clocking false, the verdict of a window list that holds malformed
\* tokens is the verdict of its well-formed tokens alone, so a list of
\* malformed tokens only denies a matched host at no hour.
C11_MalformedTokenAbsent ==
    (/\ call.made /\ ~Blockmode /\ ~call.clocking
     /\ \A tok \in Tokens : WellFormed(tok) \/ Malformed(tok)
     /\ \E tok \in Tokens : Malformed(tok))
        => /\ ~call.panic
           /\ call.ret = (Matched(call.host) /\ InSomeWellFormedWindow(call.hour))

\* C12: an empty line of the blacklist matches nothing: a host is denied only
\* if one of the non-empty lines is a substring of it, so a blacklist of
\* empty lines denies no host.
C12_EmptyLineMatchesNothing ==
    (call.made /\ call.ret) =>
        \E i \in 1..Len(Hosts) : Hosts[i] # <<>> /\ Contains(call.host, Hosts[i])

\* C13: when the blacklist file cannot be opened, the BlockList stays empty,
\* startup goes on to serve requests, and Evaluate returns false for every
\* host in every later state.
C13_MissingBlacklistDeniesNothing ==
    Blacklist.open = "err" =>
        /\ mpc \notin {"main", "proxy"} => (mpc = "serve" /\ Hosts = <<>>)
        /\ call.made => (~call.panic /\ call.ret = FALSE)

\* C14 as stated: writing N distinct non-empty lines to a blacklist file and
\* loading it yields a BlockList of exactly N patterns that matches every
\* host containing one of the lines.
C14_RoundTripAnyLines ==
    (/\ Loaded /\ Blacklist.open = "ok" /\ Blacklist.end # "err"
     /\ DistinctNonEmpty(Blacklist.lines))
        => RoundTrip(Blacklist, WrittenCount(Blacklist))

\* C14 as amended: the same, for lines none of which is longer than the
\* 16 KiB read buffer of InitHosts.
C14_RoundTripShortLines ==
    (/\ Loaded /\ Blacklist.open = "ok" /\ Blacklist.end = "eof"
     /\ DistinctNonEmpty(Blacklist.lines))
        => RoundTrip(Blacklist, Len(Blacklist.lines))

C14_Witness ==
    /\ mpc = "serve" /\ Blacklist.open = "ok" /\ Blacklist.end = "eof"
    /\ DistinctNonEmpty(Blacklist.lines) /\ Len(Blacklist.lines) = 2
    /\ Len(Hosts) = 2
    /\ call.made /\ call.host = <<"b", "a">> /\ Blockmode /\ call.ret

\* C15: once the tree has stopped changing and no I/O error occurs, every
\* scan cycle that started after the last change ends with the clocking flag
\* true if the tree holds an open clock marker and false if it holds none.
C15_FreshAfterOneCycle ==
    (CycleDone /\ ~edited /\ Scannable(OrgDir.root, FALSE)) =>
        (Clocking <=> HasOpenMarker(OrgDir.root, FALSE))

\* The cycle before ended with false; the tree was edited; the cycle that
\* started next has just ended with true.
C15_Witness ==
    /\ wpc = "log" /\ cycled /\ ~logged /\ ~edited /\ Clocking
    /\ OrgDir.root = TreeOpen /\ Scannable(OrgDir.root, FALSE)

\* C16: with an empty -orgdir the watcher is never started and the clocking
\* flag keeps its initial value false, so every verdict of Evaluate equals
\* matched AND (blockmode OR the hour lies in some window).
C16_NoOrgDirNoWatcher ==
    ~OrgDir.set =>
        /\ wpc = "off"
        /\ Clocking = FALSE
        /\ call.made =>
              /\ call.clocking = FALSE
              /\ ~call.panic =>
                    call.ret = (Matched(call.host) /\
                                   (Blockmode \/ InSomeWindow(call.hour)))

C16_Witness ==
    /\ ~OrgDir.set /\ mpc = "serve" /\ wpc = "off"
    /\ call.made /\ ~Blockmode /\ call.hour = 17 /\ call.ret

\* C17: an Evaluate call changes neither the BlockList, the hour windows,
\* the block-mode flag nor the clocking flag; once requests are served the
\* BlockList, the windows and block-mode never change, and the clocking flag
\* is written by the watcher only.
C17_EvaluateChangesNothing ==
    [][/\ call' # call => UNCHANGED <<Hosts, Hours, Blockmode, Clocking>>
       /\ mpc = "serve" => UNCHANGED <<Hosts, Hours, Blockmode>>
       /\ Clocking' # Clocking => (wpc \in {"cycle", "read"} /\ wpc' \in {"walk", "read"})
      ]_vars

C17_Witness ==
    /\ mpc = "serve" /\ call.made /\ ~call.clocking /\ ~Clocking
    /\ call.ret /\ wpc = "walk" /\ cycled

\* C18: scan cycles never overlap: a scan starts only from the head of the
\* loop, the head of the loop is reached only at the start of the goroutine
\* and when a sleep has elapsed, and a sleep starts only when the scan before
\* it has completed and been logged.
C18_CyclesInSequence ==
    [][/\ (wpc' \in {"walk", "read"} /\ wpc \notin {"walk", "read"}) => wpc = "cycle"
       /\ (wpc' = "cycle" /\ wpc # "cycle") =>
              (wpc = "sleep" \/ (wpc = "off" /\ ~cycled))
       /\ (wpc' = "sleep" /\ wpc # "sleep") => wpc = "log"
       /\ (wpc' = "log" /\ wpc # "log") => wpc \in {"walk", "read"}
      ]_vars

C18_Witness == cycled /\ wpc = "read" /\ wline = 2

\* C19: in every state the clocking flag is true only if the current scan
\* cycle or, when none is in progress, the last one has read an open clock
\* marker; within a cycle the flag never goes from true back to false.
C19_NoFalsePositive ==
    /\ [](Clocking => \E line \in LinesRead : OpenMarker(line))
    /\ [][(Clocking /\ ~Clocking') => (wpc = "cycle" /\ wpc' = "walk")]_vars

C19_Witness ==
    /\ Clocking /\ wpc = "walk" /\ OrgDir.root = TreeMixed
    /\ \E line \in LinesRead : OpenMarker(line)

\* C20: hour windows do not wrap round midnight: with block-mode off and
\* clocking false, well-formed windows whose start is greater than their end
\* deny a matched host at no hour.
C20_NoWrapAround ==
    (/\ call.made /\ ~Blockmode /\ ~call.clocking
     /\ Tokens # {}
     /\ \A tok \in Tokens :
            WellFormed(tok) /\ Atoi(Split(tok, "-")[1]) > Atoi(Split(tok, "-")[2]))
        => (~call.panic /\ call.ret = FALSE)

C20_Witness ==
    /\ call.made /\ ~Blockmode /\ ~call.clocking
    /\ hours = <<"2", "2", "-", "6">>
    /\ Matched(call.host) /\ call.hour = 23 /\ ~call.panic /\ ~call.ret

====
